---------------------------- MODULE Spec2Model ----------------------------
(***************************************************************************)
(* Model of the droid serial protocol of R2D2 (src/pi): NumericLimit,      *)
(* remap, the serial packet classes, the packet registry and the           *)
(* SerialCommunicator.                                                     *)
(*                                                                         *)
(* Python values are represented as follows.                               *)
(*   - a number is a record [float, num, den]: the int n is I(n), a float  *)
(*     is the exact rational num/den with float = TRUE;                    *)
(*   - None is carried by a separate flag (hasMin/hasMax, none);           *)
(*   - a bytes object is a sequence of integers in 0..255;                 *)
(*   - the outcome of a call is a record whose kind is "return" or the     *)
(*     name of the exception that escaped the call.                        *)
(***************************************************************************)
EXTENDS Integers, Sequences, FiniteSets, TLC

VARIABLES
    \* -- NumericLimit.assert_value under test
    lim,        \* the NumericLimit instance
    value,      \* the value argument (a Python int)
    silent,     \* the use_silent_assert argument
    result,     \* outcome of the call, or NotCalled
    \* -- packet classes under test
    built,      \* outcome of the last packet constructor call
    decoded,    \* outcome of the last from_bytes call
    setCall,    \* outcome of the last set() call on the built packet
    \* -- SerialCommunicator and its transport
    comm,       \* life cycle of the SerialCommunicator object
    port,       \* state of self._serial_port
    inbound,    \* bytes waiting in the transport's receive buffer
    written,    \* sequence of the byte strings handed to write(), in order
    ioCalls,    \* number of calls made so far, by kind
    last,       \* outcome of the last send/receive call
    \* -- Consts.remap under test
    rmIn,       \* the ranges and the values of the remap calls
    rmOut,      \* outcomes of the remap calls made so far, in order
    trip,       \* a packet field remapped by __init__ and back by from_bytes
    \* -- MovementController.turn under test
    turnIn,     \* the arguments <<angle, direction, speed>>
    turnOut,    \* outcome of the call, or NoTurn
    \* -- a LimitedSignedPercentage object under test
    pctLive,    \* the object was constructed
    pctValue,   \* its _value
    pctOut,     \* outcome of the constructor or of the last operator call
    pctOps      \* number of operator calls made so far

limitVars  == <<lim, value, silent, result>>
packetVars == <<built, decoded, setCall>>
commVars   == <<comm, port, inbound, written, ioCalls, last>>
remapVars  == <<rmIn, rmOut, trip>>
moveVars   == <<turnIn, turnOut>>
pctVars    == <<pctLive, pctValue, pctOut, pctOps>>
vars       == <<lim, value, silent, result, built, decoded, setCall,
                comm, port, inbound, written, ioCalls, last, rmIn, rmOut, trip,
                turnIn, turnOut, pctLive, pctValue, pctOut, pctOps>>

(***************************************************************************)
(* Bounds of the model.                                                    *)
(***************************************************************************)
ValueBound == 102      \* values -ValueBound..ValueBound are tried against limits
LimBound   == 2        \* ad-hoc limits have bounds in -LimBound..LimBound
MaxOps     == 3        \* send/receive calls per run of the communicator
RemapBound == 2
MaxSets == 2
MaxPctOps == 3         \* operator calls on one LimitedSignedPercentage
MaxInbound == 2        \* frames the device may queue on the receive buffer

(***************************************************************************)
(* Python numbers.                                                         *)
(***************************************************************************)
I(n) == [den |-> 1, float |-> FALSE, num |-> n]
F(n, d) == [den |-> d, float |-> TRUE, num |-> n]
Lt(a, b) == a.num * b.den < b.num * a.den
Le(a, b) == a.num * b.den <= b.num * a.den
Gt(a, b) == Lt(b, a)
Ge(a, b) == Le(b, a)

(***************************************************************************)
(* Outcomes of calls.                                                      *)
(***************************************************************************)
Return(v)  == [kind |-> "return", none |-> FALSE, val |-> v]
ReturnNone == [kind |-> "return", none |-> TRUE, val |-> I(0)]
Raise(e)   == [kind |-> e, none |-> TRUE, val |-> I(0)]
NotCalled  == [kind |-> "not called", none |-> TRUE, val |-> I(0)]

(***************************************************************************)
(* Limits.py                                                               *)
(***************************************************************************)
\* NumericLimit.__init__: min_value / max_value, either may be None.
NumericLimit(hasMin, hasMax, mn, mx) ==
    [hasMin |-> hasMin, hasMax |-> hasMax, max |-> mx, min |-> mn]

\* The constructor raises ValueError when both bounds are None.
NumericLimitConstructible(hasMin, hasMax) == hasMin \/ hasMax

SIGNED_PERCENTAGE     == NumericLimit(TRUE, TRUE, -100, 100)
UNSIGNED_PERCENTAGE   == NumericLimit(TRUE, TRUE, 0, 100)
TURN_ANGLE            == NumericLimit(TRUE, TRUE, -180, 180)
POSITIVE_INT          == NumericLimit(TRUE, FALSE, 0, 0)
TWO_BYTE_UNSIGNED_INT == NumericLimit(TRUE, TRUE, 0, 65535)

\* Python truth value of a bound: None and 0 are false.
Truthy(has, n) == has /\ n # 0

\* RangeTest without its comparison against the upper bound.
RangeTest_NoUpper(l, v) ==
    IF ~l.hasMin THEN "TypeError"
    ELSE IF Le(v, I(l.min)) THEN "true"
    ELSE IF ~l.hasMax THEN "TypeError"
    ELSE "false"

\* The final range test of assert_value,
\*   value <= self._min_value or value >= self._max_value
\* evaluated left to right; comparing a number with None raises TypeError.
\* Yields "true", "false" or "TypeError".
RangeTest(l, v) ==
    IF ~l.hasMin THEN "TypeError"
    ELSE IF Le(v, I(l.min)) THEN "true"
    ELSE IF ~l.hasMax THEN "TypeError"
    ELSE IF Ge(v, I(l.max)) THEN "true"
    ELSE "false"

\* The tail of assert_value, from the final range test on.
AssertBoth(l, v, useSilent) ==
    LET t == RangeTest(l, v) IN
    IF t = "TypeError" THEN Raise("TypeError")
    ELSE IF t = "true" THEN
        IF useSilent THEN
            IF Lt(v, I(l.min)) THEN Return(I(l.min))
            ELSE IF l.hasMax THEN Return(I(l.max)) ELSE ReturnNone
        ELSE Raise("AssertionError")
    ELSE ReturnNone

\* assert_value from its second if statement on (only max is set).
AssertOnlyMax(l, v, useSilent) ==
    IF Truthy(l.hasMax, l.max) /\ ~l.hasMin /\ Ge(v, I(l.max)) THEN
        IF useSilent THEN Return(I(l.max)) ELSE Raise("AssertionError")
    ELSE AssertBoth(l, v, useSilent)

\* NumericLimit.assert_value(value, use_silent_assert).
assert_value(l, v, useSilent) ==
    IF Truthy(l.hasMin, l.min) /\ ~l.hasMax /\ Le(v, I(l.min)) THEN
        IF useSilent THEN Return(I(l.min)) ELSE Raise("AssertionError")
    ELSE AssertOnlyMax(l, v, useSilent)


\* The attributes of class Limits, by name.
LimitsClass ==
    [SIGNED_PERCENTAGE     |-> SIGNED_PERCENTAGE,
     UNSIGNED_PERCENTAGE   |-> UNSIGNED_PERCENTAGE,
     TURN_ANGLE            |-> TURN_ANGLE,
     POSITIVE_INT          |-> POSITIVE_INT,
     TWO_BYTE_UNSIGNED_INT |-> TWO_BYTE_UNSIGNED_INT]

\* Attribute access Limits.<name> raises AttributeError for an unknown name.
HasLimit(name) == name \in DOMAIN LimitsClass

(***************************************************************************)
(* Consts.py                                                               *)
(***************************************************************************)
PWM_BITS      == 8
PWM_MIN_VALUE == 0
PWM_MAX_VALUE == 2 ^ PWM_BITS - 1

\* SerialConstants.SerialPacketType
CORE    == 0
MOTORS  == 1
SENSORS == 2
CONT    == 254
LAST    == 255
SerialPacketType == {CORE, MOTORS, SENSORS, CONT, LAST}

\* SerialConstants.CoreSerialPacketType and MotorSerialPacketType
SLEEP == 1
SPEED == 1
DRIVE == 2
TURN  == 3

\* MovementConstants.MovementDirection
FORWARD  == 0
BACKWARD == 1
MovementDirection == {FORWARD, BACKWARD}

\* remap(value, max_input, min_input, max_output, min_output).  The result is
\* always a float; it is kept as the exact rational
\*   min_output + (value - min_input) / input_span * output_span.
remap_NoClamp(v, max_input, min_input, max_output, min_output) ==
    LET input_span  == max_input - min_input
        output_span == max_output - min_output
        n == min_output * v.den * input_span
               + (v.num - min_input * v.den) * output_span
        d == v.den * input_span
    IN  IF input_span = 0 THEN Raise("ZeroDivisionError")
        ELSE IF d < 0 THEN Return(F(-n, -d))
        ELSE Return(F(n, d))

remap_FromMax(v, max_input, min_input, max_output, min_output) ==
    LET v1 == IF Gt(v, I(max_input)) THEN I(max_input) ELSE v
        v2 == IF Lt(v1, I(min_input)) THEN I(min_input) ELSE v1
        input_span  == max_input - min_input
        output_span == max_output - min_output
        n == min_output * v2.den * input_span
               + (max_input * v2.den - v2.num) * output_span
        d == v2.den * input_span
    IN  IF input_span = 0 THEN Raise("ZeroDivisionError")
        ELSE IF d < 0 THEN Return(F(-n, -d))
        ELSE Return(F(n, d))

remap(v, max_input, min_input, max_output, min_output) ==
    LET v1 == IF Gt(v, I(max_input)) THEN I(max_input) ELSE v
        v2 == IF Lt(v1, I(min_input)) THEN I(min_input) ELSE v1
        input_span  == max_input - min_input
        output_span == max_output - min_output
        n == min_output * v2.den * input_span
               + (v2.num - min_input * v2.den) * output_span
        d == v2.den * input_span
    IN  IF input_span = 0 THEN Raise("ZeroDivisionError")
        ELSE IF d < 0 THEN Return(F(-n, -d))
        ELSE Return(F(n, d))

(***************************************************************************)
(* Python built-ins used by the packet classes.                            *)
(***************************************************************************)
Byte == 0..255

\* Is x usable as one element of bytes(list)?  "ok", or the exception raised.
ByteItem(x) ==
    IF x.float THEN "TypeError"
    ELSE IF x.num \notin Byte THEN "ValueError"
    ELSE "ok"

\* bytes(fields) for a list of numbers: the first offending element raises.
PyBytes(fields) ==
    LET bad == {i \in 1..Len(fields) : ByteItem(fields[i]) # "ok"} IN
    IF bad = {} THEN [kind |-> "return", bytes |-> [i \in 1..Len(fields) |-> fields[i].num]]
    ELSE LET first == CHOOSE i \in bad : \A j \in bad : i <= j
         IN  [kind |-> ByteItem(fields[first]), bytes |-> <<>>]

\* struct.calcsize and the number of values struct.unpack yields.
StructSize(fmt) ==
    CASE fmt = ">H"   -> 2
      [] fmt = ">BB"  -> 2
      [] fmt = ">BHB" -> 4
      [] fmt = "BBs"  -> 3

\* struct.unpack(fmt, b) for the integer formats: struct.error unless b has
\* exactly the size of the format.
Unpack(fmt, b) ==
    IF Len(b) # StructSize(fmt) THEN [kind |-> "struct.error", vals |-> <<>>]
    ELSE [kind |-> "return",
          vals |-> CASE fmt = ">H"   -> <<b[1] * 256 + b[2]>>
                     [] fmt = ">BB"  -> <<b[1], b[2]>>
                     [] fmt = ">BHB" -> <<b[1], b[2] * 256 + b[3], b[4]>>
                     [] fmt = "BBs"  -> <<b[1], b[2], b[3]>>]

(***************************************************************************)
(* Serial/SerialPackets.py                                                 *)
(***************************************************************************)
NoPacket == [fields |-> <<>>, bytes |-> <<>>, cls |-> "none", data |-> <<>>, ptype |-> 0]
Built(p)  == [kind |-> "return", pkt |-> p]
Failed(e) == [kind |-> e, pkt |-> NoPacket]
NotBuilt  == [kind |-> "not called", pkt |-> NoPacket]

\* BasicSerialPacket.__init__(packet_type, data), reached through super()
\* from the subclass variant that keeps the attributes attrs.  payload is the
\* outcome of the bytes(self._fields) argument (data), evaluated before the
\* call.
BasicInit(variant, attrs, packet_type, payload) ==
    IF payload.kind # "return" THEN Failed(payload.kind)
    ELSE IF packet_type \notin SerialPacketType THEN Failed("ValueError")
    ELSE Built([fields |-> attrs, bytes |-> <<packet_type>> \o payload.bytes,
                cls |-> variant, data |-> payload.bytes, ptype |-> packet_type])

\* BasicSerialPacket(packet_type, data) called directly; isBytes tells
\* whether data is a bytes object.
BasicSerialPacket(packet_type, isBytes, data) ==
    IF packet_type \notin SerialPacketType THEN Failed("ValueError")
    ELSE IF ~isBytes THEN Failed("TypeError")
    ELSE Built([fields |-> <<>>, bytes |-> <<packet_type>> \o data,
                cls |-> "Basic", data |-> data, ptype |-> packet_type])

\* packet.set(data): the outcome and the packet after the call.
PacketSet(p, isBytes, data) ==
    IF ~isBytes THEN Failed("TypeError")
    ELSE Built([p EXCEPT !.data = data])

\* CoreSleepSerialPacket.__init__(sleep_period)
CoreSleepInit(sleep_period) ==
    LET a == assert_value(LimitsClass.POSITIVE_INT, sleep_period, FALSE) IN
    IF a.kind # "return" THEN Failed(a.kind)
    ELSE BasicInit("CoreSleep", <<sleep_period>>, CORE,
                   PyBytes(<<I(SLEEP), sleep_period>>))

\* MotorSpeedSerialPacket.__init__(motor_id, speed)
MotorSpeedInit(motor_id, speed) ==
    LET a == assert_value(LimitsClass.SIGNED_PERCENTAGE, speed, FALSE) IN
    IF a.kind # "return" THEN Failed(a.kind)
    ELSE BasicInit("MotorSpeed", <<motor_id, speed>>, MOTORS,
                   PyBytes(<<I(SPEED), motor_id, speed>>))

\* The remap calls of DriveSerialPacket and TurnSerialPacket: __init__ maps a
\* field onto the PWM range, from_bytes maps a PWM byte back.
DriveAdjustedSpeed(speed) ==
    LET percentage_limit == LimitsClass.UNSIGNED_PERCENTAGE IN
    remap(speed, percentage_limit.max, percentage_limit.min, PWM_MAX_VALUE, PWM_MIN_VALUE)

DriveDecodedSpeed(speed) ==
    LET speed_limit == LimitsClass.SIGNED_PERCENTAGE IN
    remap(speed, PWM_MAX_VALUE, PWM_MIN_VALUE, speed_limit.max, speed_limit.min)

TurnAdjustedAngle(angle) ==
    LET angle_limit == LimitsClass.SIGNED_PERCENTAGE IN
    remap(angle, angle_limit.max, angle_limit.min, PWM_MAX_VALUE, PWM_MIN_VALUE)

TurnAdjustedSpeed(speed) ==
    LET percentage_limit == LimitsClass.UNSIGNED_PERCENTAGE IN
    remap(speed, percentage_limit.max, percentage_limit.min, PWM_MAX_VALUE, PWM_MIN_VALUE)

TurnDecodedAngle(angle) ==
    LET angle_limit == LimitsClass.TURN_ANGLE IN
    remap(angle, PWM_MAX_VALUE, PWM_MIN_VALUE, angle_limit.max, angle_limit.min)

TurnDecodedSpeed(speed) ==
    LET speed_limit == LimitsClass.UNSIGNED_PERCENTAGE IN
    remap(speed, PWM_MAX_VALUE, PWM_MIN_VALUE, speed_limit.max, speed_limit.min)

\* DriveSerialPacket.__init__(direction, distance, speed).  The first
\* statement reads Limits.TWO_BYTE_UINT.
DriveInit(direction, distance, speed) ==
    IF ~HasLimit("TWO_BYTE_UINT") THEN Failed("AttributeError")
    ELSE
    LET a1 == assert_value(LimitsClass.TWO_BYTE_UNSIGNED_INT, distance, FALSE)
        a2 == assert_value(LimitsClass.SIGNED_PERCENTAGE, speed, FALSE)
        distance_msb == (distance.num \div 256) % 256
        distance_lsb == distance.num % 256
        adjusted_speed == DriveAdjustedSpeed(speed)
    IN  IF a1.kind # "return" THEN Failed(a1.kind)
        ELSE IF a2.kind # "return" THEN Failed(a2.kind)
        ELSE IF direction.num \notin MovementDirection THEN Failed("AssertionError")
        ELSE IF adjusted_speed.kind # "return" THEN Failed(adjusted_speed.kind)
        ELSE BasicInit("Drive", <<direction, distance, speed>>, MOTORS,
                       PyBytes(<<I(DRIVE), direction, I(distance_msb), I(distance_lsb),
                                 adjusted_speed.val>>))

\* TurnSerialPacket.__init__(angle, speed)
TurnInit(angle, speed) ==
    LET adjusted_angle == TurnAdjustedAngle(angle)
        adjusted_speed == TurnAdjustedSpeed(speed)
    IN  IF adjusted_angle.kind # "return" THEN Failed(adjusted_angle.kind)
        ELSE IF adjusted_speed.kind # "return" THEN Failed(adjusted_speed.kind)
        ELSE BasicInit("Turn", <<angle, speed>>, MOTORS,
                       PyBytes(<<I(TURN), adjusted_angle.val, adjusted_speed.val>>))

\* The tuple struct.unpack returns is assigned to a fixed number of names;
\* a tuple of any other length raises ValueError.
CoreSleepTargets  == 2     \* sleep_period, _
MotorSpeedTargets == 3     \* motor_id, motor_speed, _
DriveTargets      == 4     \* direction, distance, speed, _
TurnTargets       == 3     \* angle, speed, _

\* CoreSleepSerialPacket.from_bytes(byte_array)
CoreSleepFromBytes(b) ==
    LET u == Unpack(">H", b) IN
    IF u.kind # "return" THEN Failed(u.kind)
    ELSE IF Len(u.vals) # CoreSleepTargets THEN Failed("ValueError")
    ELSE CoreSleepInit(I(u.vals[1]))

\* MotorSpeedSerialPacket.from_bytes(byte_array)
MotorSpeedFromBytes(b) ==
    LET u == Unpack(">BB", b) IN
    IF u.kind # "return" THEN Failed(u.kind)
    ELSE IF Len(u.vals) # MotorSpeedTargets THEN Failed("ValueError")
    ELSE MotorSpeedInit(I(u.vals[1]), I(u.vals[2]))

\* DriveSerialPacket.from_bytes(byte_array)
DriveFromBytes(b) ==
    LET u == Unpack(">BHB", b) IN
    IF u.kind # "return" THEN Failed(u.kind)
    ELSE IF Len(u.vals) # DriveTargets THEN Failed("ValueError")
    ELSE LET speed == DriveDecodedSpeed(I(u.vals[3]))
         IN  IF speed.kind # "return" THEN Failed(speed.kind)
             ELSE DriveInit(I(u.vals[1]), I(u.vals[2]), speed.val)

\* TurnSerialPacket.from_bytes(byte_array)
TurnFromBytes(b) ==
    LET u == Unpack(">BB", b) IN
    IF u.kind # "return" THEN Failed(u.kind)
    ELSE IF Len(u.vals) # TurnTargets THEN Failed("ValueError")
    ELSE LET angle == TurnDecodedAngle(I(u.vals[1]))
             speed == TurnDecodedSpeed(I(u.vals[2]))
         IN  IF angle.kind # "return" THEN Failed(angle.kind)
             ELSE IF speed.kind # "return" THEN Failed(speed.kind)
             ELSE TurnInit(angle.val, speed.val)

\* from_bytes of the variant named cls.
FromBytes(cls, b) ==
    CASE cls = "CoreSleep"  -> CoreSleepFromBytes(b)
      [] cls = "MotorSpeed" -> MotorSpeedFromBytes(b)
      [] cls = "Drive"      -> DriveFromBytes(b)
      [] cls = "Turn"       -> TurnFromBytes(b)

Variants == {"CoreSleep", "MotorSpeed", "Drive", "Turn"}


(***************************************************************************)
(* Serial/PacketMapping.py                                                 *)
(***************************************************************************)
\* The registry with the classes of SPEED and DRIVE exchanged.
PACKET_MAPPING_Swapped ==
    [k \in {<<CORE, SLEEP>>, <<MOTORS, SPEED>>, <<MOTORS, DRIVE>>, <<MOTORS, TURN>>} |->
        CASE k = <<CORE, SLEEP>>   -> "CoreSleep"
          [] k = <<MOTORS, SPEED>> -> "Drive"
          [] k = <<MOTORS, DRIVE>> -> "MotorSpeed"
          [] k = <<MOTORS, TURN>>  -> "Turn"]

\* PACKET_MAPPING: (packet type, sub-type) -> packet class.
PACKET_MAPPING ==
    [k \in {<<CORE, SLEEP>>, <<MOTORS, SPEED>>, <<MOTORS, DRIVE>>, <<MOTORS, TURN>>} |->
        CASE k = <<CORE, SLEEP>>   -> "CoreSleep"
          [] k = <<MOTORS, SPEED>> -> "MotorSpeed"
          [] k = <<MOTORS, DRIVE>> -> "Drive"
          [] k = <<MOTORS, TURN>>  -> "Turn"]

(***************************************************************************)
(* Consts.MovementConstants and Movement/Movement.py                       *)
(***************************************************************************)
TURNING_RATE == 0
WHEEL_LEFT   == 0
WHEEL_RIGHT  == 1
LEFT  == 0
RIGHT == 1
RotationDirection == {LEFT, RIGHT}

\* seconds_to_milliseconds(secs): abs(int(secs * 1000)).
seconds_to_milliseconds(secs) ==
    ((IF secs.num < 0 THEN -secs.num ELSE secs.num) * 1000) \div secs.den

\* percentage_to_float(percentage): percentage / 100.0.
percentage_to_float(percentage) == F(percentage.num, percentage.den * 100)

\* The product of two numbers.
Times(a, b) == F(a.num * b.num, a.den * b.den)

\* A Python list returned by a call, or the exception that escaped it.  An
\* element of the list turn returns is one packet or a list of packets.
ListReturn(l) == [kind |-> "return", items |-> l]
ListRaise(e)  == [kind |-> e, items |-> <<>>]
Item(p)       == [nested |-> FALSE, pkts |-> <<p>>]
ItemList(l)   == [nested |-> TRUE, pkts |-> l]

\* _stop_motor(motor_id)
stop_motor(motor_id) == MotorSpeedInit(I(motor_id), I(0))

\* MovementController.stop_moving()
stop_moving ==
    LET l == stop_motor(WHEEL_LEFT)
        r == stop_motor(WHEEL_RIGHT)
    IN  IF l.kind # "return" THEN ListRaise(l.kind)
        ELSE IF r.kind # "return" THEN ListRaise(r.kind)
        ELSE ListReturn(<<l.pkt, r.pkt>>)

\* MovementController.turn(angle, direction, speed)
turn(angle, direction, speed) ==
    LET a1 == assert_value(LimitsClass.TURN_ANGLE, I(angle), FALSE)
        a2 == assert_value(LimitsClass.UNSIGNED_PERCENTAGE, I(speed), FALSE)
        target_angle == IF angle < 0 /\ direction = LEFT THEN -angle ELSE angle
        target_speed == IF target_angle < 0 THEN -speed ELSE speed
        time_to_sleep_ms ==
            seconds_to_milliseconds(
                Times(Times(I(TURNING_RATE), percentage_to_float(I(speed))), I(angle)))
        p1 == MotorSpeedInit(I(WHEEL_LEFT), I(target_speed))
        p2 == MotorSpeedInit(I(WHEEL_RIGHT), I(-target_speed))
        p3 == CoreSleepInit(I(time_to_sleep_ms))
        p4 == stop_moving
    IN  IF a1.kind # "return" THEN ListRaise(a1.kind)
        ELSE IF a2.kind # "return" THEN ListRaise(a2.kind)
        ELSE IF p1.kind # "return" THEN ListRaise(p1.kind)
        ELSE IF p2.kind # "return" THEN ListRaise(p2.kind)
        ELSE IF p3.kind # "return" THEN ListRaise(p3.kind)
        ELSE IF p4.kind # "return" THEN ListRaise(p4.kind)
        ELSE ListReturn(<<Item(p1.pkt), Item(p2.pkt), Item(p3.pkt), ItemList(p4.items)>>)

(***************************************************************************)
(* CustomTypes.py: LimitedSignedPercentage.  The outcome of a call is a    *)
(* record: kind is "return" or the exception, what tells the returned      *)
(* value apart ("object": a new LimitedSignedPercentage, "self", "int",    *)
(* "None"), val is the number returned or held by the returned object.     *)
(***************************************************************************)
MIN_VALUE == -100
MAX_VALUE == 100

PctOutcome(kind, what, val) == [kind |-> kind, val |-> val, what |-> what]

\* _safe_add: min([max_val, val1 + val2])
safe_add(val1, val2) ==
    IF MAX_VALUE < val1 + val2 THEN MAX_VALUE ELSE val1 + val2

\* _safe_sub: max([min_val, val1 - val2])
safe_sub(val1, val2) ==
    IF MIN_VALUE > val1 - val2 THEN MIN_VALUE ELSE val1 - val2

\* _assert_valid returns normally
assert_valid(v) == ~(v < MIN_VALUE \/ v > MAX_VALUE)

\* LimitedSignedPercentage(v)
LimitedSignedPercentage(v) ==
    IF assert_valid(v) THEN PctOutcome("return", "object", v)
    ELSE PctOutcome("ValueError", "nothing", 0)

\* __add__ and __sub__: the result of the capped operation r, wrapped in a
\* new object when the operand is a LimitedSignedPercentage.
PctBinary(isPct, r) ==
    IF isPct THEN LimitedSignedPercentage(r) ELSE PctOutcome("return", "int", r)

\* __mul__ on _value self_value: the outcome and the new _value of self.
PctMulOutcome(self_value, other) ==
    LET op_result == self_value * other
    IN  IF op_result > MAX_VALUE THEN LimitedSignedPercentage(MAX_VALUE)
        ELSE IF op_result < MIN_VALUE THEN LimitedSignedPercentage(MIN_VALUE)
        ELSE PctOutcome("return", "self", op_result)

PctMulValue(self_value, other) ==
    LET op_result == self_value * other
    IN  IF op_result > MAX_VALUE \/ op_result < MIN_VALUE THEN self_value
        ELSE op_result

(***************************************************************************)
(* Inputs tried by the specifications.                                     *)
(***************************************************************************)
\* Values tried against the limits: a full range around the percentage
\* limits and the edges of the wider limits.
EdgeValues == {-181, -180, 180, 181, 300, 65535, 65536}
Values == (-ValueBound..ValueBound) \cup EdgeValues

\* The limits of class Limits, and every limit NumericLimit.__init__ accepts
\* with bounds in -LimBound..LimBound (min <= max when both are given).
NamedLimits == {LimitsClass[n] : n \in DOMAIN LimitsClass}
AdHocLimits ==
    {NumericLimit(TRUE, TRUE, a, b) : a \in -LimBound..LimBound, b \in -LimBound..LimBound}
    \cup {NumericLimit(TRUE, FALSE, a, 0) : a \in -LimBound..LimBound}
    \cup {NumericLimit(FALSE, TRUE, 0, b) : b \in -LimBound..LimBound}
LimitInstances ==
    NamedLimits \cup {l \in AdHocLimits :
                        /\ NumericLimitConstructible(l.hasMin, l.hasMax)
                        /\ (l.hasMin /\ l.hasMax) => l.min <= l.max}

\* Constructor arguments tried for the packet classes.
SleepPeriods == {-1, 0, 1, 10, 255, 300, 65535, 65536}
MotorIds     == {0, 5, 10, 255, 256}
Speeds       == Values
Directions   == {FORWARD, BACKWARD, 2}
Distances    == {-1, 0, 10, 300, 2570, 65535, 65536}
Angles       == {-181, -180, -90, 0, 10, 90, 180, 181}
TurnSpeeds   == {-1, 0, 1, 50, 100, 101}
DriveSpeeds  == {-101, -100, -50, 0, 50, 100, 101}

\* Constructor arguments and operands of LimitedSignedPercentage: an operand
\* <<TRUE, v>> is a LimitedSignedPercentage holding v, <<FALSE, v>> the int v.
PctValues   == {-101, -100, -50, 0, 50, 100, 101}
PctOperands == ({TRUE} \X {-100, -50, 50, 100}) \cup ({FALSE} \X {-50, -1, 2, 50})

\* Byte strings handed to from_bytes: every length from 0 to 5.
RawPayloads ==
    << <<>>, <<10>>, <<0, 10>>, <<5, 50>>, <<128, 255>>, <<255, 255>>, <<1, 2, 3>>,
       <<0, 0, 10, 128>>, <<1, 255, 255, 255>>, <<2, 0, 10, 0>>, <<0, 0, 10, 128, 0>> >>

(***************************************************************************)
(* Specification of NumericLimit.assert_value: one call on chosen inputs.  *)
(***************************************************************************)
NoCall == [kind |-> "not called", pkt |-> NoPacket, arg |-> <<>>, line |-> <<>>,
           op |-> "none", portWas |-> "unset", seq |-> 0]
NoBuild == [cls |-> "none", args |-> <<>>, out |-> NotBuilt]
NoDecode == [cls |-> "none", payload |-> <<>>, out |-> NotBuilt]
NoSet == [kind |-> "not called", isBytes |-> TRUE, count |-> 0]
NoTurn == [kind |-> "not called", items |-> <<>>]
NoPct == PctOutcome("not called", "nothing", 0)
NoCalls == [arrived |-> 0, close |-> 0, open |-> 0, ops |-> 0, readline |-> 0, write |-> 0]

NoRemap == [max_input |-> 1, min_input |-> 0, max_output |-> 1, min_output |-> 0,
            first |-> 0, second |-> 0]
NoTrip == [field |-> "none", orig |-> 0, adjusted |-> NotCalled, restored |-> NotCalled]

LimitIdle ==
    /\ lim = SIGNED_PERCENTAGE
    /\ value = 0
    /\ silent = FALSE
    /\ result = NotCalled

PacketIdle ==
    /\ built = NoBuild
    /\ decoded = NoDecode
    /\ setCall = NoSet

RemapIdle ==
    /\ rmIn = NoRemap
    /\ rmOut = <<>>
    /\ trip = NoTrip

MoveIdle ==
    /\ turnIn = <<0, RIGHT, 0>>
    /\ turnOut = NoTurn

PctIdle ==
    /\ pctLive = FALSE
    /\ pctValue = 0
    /\ pctOut = NoPct
    /\ pctOps = 0

CommIdle ==
    /\ comm = "absent"
    /\ port = "unset"
    /\ inbound = <<>>
    /\ written = <<>>
    /\ ioCalls = NoCalls
    /\ last = NoCall

InitLimits ==
    /\ lim \in LimitInstances
    /\ value \in Values
    /\ silent \in BOOLEAN
    /\ result = NotCalled
    /\ PacketIdle
    /\ CommIdle
    /\ MoveIdle
    /\ PctIdle
    /\ RemapIdle

\* lim.assert_value(value, use_silent_assert=silent)
AssertValue ==
    /\ result.kind = "not called"
    /\ result' = assert_value(lim, I(value), silent)
    /\ UNCHANGED <<lim, value, silent>>
    /\ UNCHANGED packetVars
    /\ UNCHANGED commVars
    /\ UNCHANGED remapVars
    /\ UNCHANGED moveVars
    /\ UNCHANGED pctVars

NextLimits == AssertValue

SpecLimits == InitLimits /\ [][NextLimits]_vars

(***************************************************************************)
(* Specification of the packet classes: a constructor call, then           *)
(* from_bytes on a payload.                                                *)
(***************************************************************************)
InitPackets ==
    /\ LimitIdle
    /\ PacketIdle
    /\ CommIdle
    /\ MoveIdle
    /\ PctIdle
    /\ RemapIdle

\* The bytes of a packet after the type and sub-type bytes.
Payload(b) == SubSeq(b, 3, Len(b))

Construct(variant, arguments, outcome) ==
    /\ built' = [cls |-> variant, args |-> arguments, out |-> outcome]
    /\ decoded' = NoDecode
    /\ UNCHANGED setCall
    /\ UNCHANGED limitVars
    /\ UNCHANGED moveVars
    /\ UNCHANGED pctVars
    /\ UNCHANGED remapVars
    /\ UNCHANGED commVars

\* CoreSleepSerialPacket(sleep_period)
NewCoreSleep ==
    \E t \in SleepPeriods :
        Construct("CoreSleep", <<t>>, CoreSleepInit(I(t)))

\* MotorSpeedSerialPacket(motor_id, speed)
NewMotorSpeed ==
    \E m \in MotorIds, s \in Speeds :
        Construct("MotorSpeed", <<m, s>>, MotorSpeedInit(I(m), I(s)))

\* DriveSerialPacket(direction, distance, speed)
NewDrive ==
    \E dir \in Directions, dist \in Distances, s \in DriveSpeeds :
        Construct("Drive", <<dir, dist, s>>, DriveInit(I(dir), I(dist), I(s)))

\* TurnSerialPacket(angle, speed)
NewTurn ==
    \E a \in Angles, s \in TurnSpeeds :
        Construct("Turn", <<a, s>>, TurnInit(I(a), I(s)))

\* cls.from_bytes(payload of the packet just built)
Decode ==
    /\ built.out.kind = "return"
    /\ decoded.out.kind = "not called"
    /\ LET b == Payload(built.out.pkt.bytes) IN
        decoded' = [cls |-> built.cls, payload |-> b, out |-> FromBytes(built.cls, b)]
    /\ UNCHANGED <<built, setCall>>
    /\ UNCHANGED limitVars
    /\ UNCHANGED moveVars
    /\ UNCHANGED pctVars
    /\ UNCHANGED remapVars
    /\ UNCHANGED commVars

\* cls.from_bytes(byte_array) on a byte string that no constructor produced.
DecodeRaw ==
    /\ built = NoBuild
    /\ decoded.out.kind = "not called"
    /\ \E variant \in Variants, i \in 1..Len(RawPayloads) :
          decoded' = [cls |-> variant, payload |-> RawPayloads[i],
                      out |-> FromBytes(variant, RawPayloads[i])]
    /\ UNCHANGED <<built, setCall>>
    /\ UNCHANGED limitVars
    /\ UNCHANGED moveVars
    /\ UNCHANGED pctVars
    /\ UNCHANGED remapVars
    /\ UNCHANGED commVars

NextPackets ==
    \/ NewCoreSleep
    \/ NewMotorSpeed
    \/ NewDrive
    \/ NewTurn
    \/ Decode
    \/ DecodeRaw

SpecPackets == InitPackets /\ [][NextPackets]_vars


(***************************************************************************)
(* Specification of BasicSerialPacket: a constructor call, then set()      *)
(* calls on the packet.                                                    *)
(***************************************************************************)
\* Packet types and data tried; data that is not a bytes object is told by
\* isBytes = FALSE.
BasicTypes == {CORE, MOTORS, 7, LAST}
BasicSpeeds == {10, 95}
BasicDatas == << <<>>, <<1>>, <<1, 5>>, <<1, 5, 95>>, <<2, 0, 10>> >>

\* BasicSerialPacket(packet_type, data)
NewBasic ==
    /\ built = NoBuild
    /\ \E t \in BasicTypes, isBytes \in BOOLEAN, i \in 1..Len(BasicDatas) :
          built' = [cls |-> "Basic", args |-> <<t>>,
                    out |-> BasicSerialPacket(t, isBytes, BasicDatas[i])]
    /\ UNCHANGED <<decoded, setCall>>
    /\ UNCHANGED limitVars
    /\ UNCHANGED moveVars
    /\ UNCHANGED pctVars
    /\ UNCHANGED remapVars
    /\ UNCHANGED commVars

\* MotorSpeedSerialPacket(motor_id, speed), a packet of a subclass.
NewSpeedPacket ==
    /\ built = NoBuild
    /\ \E s \in BasicSpeeds :
          built' = [cls |-> "MotorSpeed", args |-> <<5, s>>,
                    out |-> MotorSpeedInit(I(5), I(s))]
    /\ UNCHANGED <<decoded, setCall>>
    /\ UNCHANGED limitVars
    /\ UNCHANGED moveVars
    /\ UNCHANGED pctVars
    /\ UNCHANGED remapVars
    /\ UNCHANGED commVars

\* packet.set(data) on the packet built
Set ==
    /\ built.out.kind = "return"
    /\ setCall.count < MaxSets
    /\ \E isBytes \in BOOLEAN, i \in 1..Len(BasicDatas) :
          LET o == PacketSet(built.out.pkt, isBytes, BasicDatas[i]) IN
          /\ setCall' = [kind |-> o.kind, isBytes |-> isBytes, count |-> setCall.count + 1]
          /\ built' = IF o.kind = "return"
                       THEN [built EXCEPT !.out.pkt = o.pkt] ELSE built
    /\ UNCHANGED decoded
    /\ UNCHANGED limitVars
    /\ UNCHANGED moveVars
    /\ UNCHANGED pctVars
    /\ UNCHANGED remapVars
    /\ UNCHANGED commVars

NextBasic ==
    \/ NewBasic
    \/ NewSpeedPacket
    \/ Set

SpecBasic == InitPackets /\ [][NextBasic]_vars


(***************************************************************************)
(* Specification of MovementController.turn: one call on chosen arguments. *)
(***************************************************************************)
InitMovement ==
    /\ LimitIdle
    /\ PacketIdle
    /\ CommIdle
    /\ RemapIdle
    /\ PctIdle
    /\ \E a \in Angles, d \in RotationDirection, s \in TurnSpeeds : turnIn = <<a, d, s>>
    /\ turnOut = NoTurn

\* MovementController.turn(angle, direction, speed)
TurnCall ==
    /\ turnOut.kind = "not called"
    /\ turnOut' = turn(turnIn[1], turnIn[2], turnIn[3])
    /\ UNCHANGED turnIn
    /\ UNCHANGED limitVars
    /\ UNCHANGED packetVars
    /\ UNCHANGED commVars
    /\ UNCHANGED remapVars
    /\ UNCHANGED pctVars

NextMovement == TurnCall

SpecMovement == InitMovement /\ [][NextMovement]_vars


(***************************************************************************)
(* Specification of LimitedSignedPercentage: an object is constructed and  *)
(* up to MaxPctOps operators are applied to it.                            *)
(***************************************************************************)
InitPct ==
    /\ LimitIdle
    /\ PacketIdle
    /\ CommIdle
    /\ RemapIdle
    /\ MoveIdle
    /\ \E v \in PctValues :
        /\ pctOut = LimitedSignedPercentage(v)
        /\ pctLive = assert_valid(v)
        /\ pctValue = IF assert_valid(v) THEN v ELSE 0
    /\ pctOps = 0

PctCalled ==
    /\ pctLive
    /\ pctOps < MaxPctOps
    /\ pctOps' = pctOps + 1
    /\ UNCHANGED pctLive
    /\ UNCHANGED limitVars
    /\ UNCHANGED packetVars
    /\ UNCHANGED commVars
    /\ UNCHANGED remapVars
    /\ UNCHANGED moveVars

\* self + other
PctAdd ==
    \E o \in PctOperands :
        /\ PctCalled
        /\ pctOut' = PctBinary(o[1], safe_add(pctValue, o[2]))
        /\ UNCHANGED pctValue

\* self += other
PctIAdd ==
    \E o \in PctOperands :
        /\ PctCalled
        /\ pctValue' = safe_add(pctValue, o[2])
        /\ pctOut' = PctOutcome("return", "self", pctValue')

\* self - other
PctSub ==
    \E o \in PctOperands :
        /\ PctCalled
        /\ pctOut' = PctBinary(o[1], safe_sub(pctValue, o[2]))
        /\ UNCHANGED pctValue

\* self -= other: __isub__ has no return statement
PctISub ==
    \E o \in PctOperands :
        /\ PctCalled
        /\ pctValue' = safe_sub(pctValue, o[2])
        /\ pctOut' = PctOutcome("return", "None", 0)

\* self * other
PctMul ==
    \E o \in PctOperands :
        /\ PctCalled
        /\ pctValue' = PctMulValue(pctValue, o[2])
        /\ pctOut' = PctMulOutcome(pctValue, o[2])

NextPct ==
    \/ PctAdd
    \/ PctIAdd
    \/ PctSub
    \/ PctISub
    \/ PctMul

SpecPct == InitPct /\ [][NextPct]_vars


(***************************************************************************)
(* Specification of Consts.remap: two calls with the same ranges.          *)
(***************************************************************************)
\* Range ends and values tried: every order of the two ends of a range,
\* equal ends included, and values below, within and above the ranges.
RemapEnds   == -RemapBound..RemapBound
RemapValues == -(RemapBound + 1)..(RemapBound + 1)

InitRemap ==
    /\ LimitIdle
    /\ PacketIdle
    /\ CommIdle
    /\ MoveIdle
    /\ PctIdle
    /\ \E mxi \in RemapEnds, mni \in RemapEnds, mxo \in RemapEnds, mno \in RemapEnds,
          a \in RemapValues, b \in RemapValues :
            rmIn = [max_input |-> mxi, min_input |-> mni, max_output |-> mxo,
                    min_output |-> mno, first |-> a, second |-> b]
    /\ rmOut = <<>>
    /\ trip = NoTrip

\* Consts.remap(value, max_input, min_input, max_output, min_output) with the
\* first value, then with the second.
Remap ==
    /\ Len(rmOut) < 2
    /\ LET v == IF Len(rmOut) = 0 THEN rmIn.first ELSE rmIn.second IN
        rmOut' = Append(rmOut, remap(I(v), rmIn.max_input, rmIn.min_input,
                                     rmIn.max_output, rmIn.min_output))
    /\ UNCHANGED <<rmIn, trip>>
    /\ UNCHANGED limitVars
    /\ UNCHANGED moveVars
    /\ UNCHANGED pctVars
    /\ UNCHANGED packetVars
    /\ UNCHANGED commVars

NextRemap == Remap

SpecRemap == InitRemap /\ [][NextRemap]_vars

(***************************************************************************)
(* Specification of the remapped packet fields: from_bytes maps a PWM byte *)
(* to the field value and hands it to __init__, which maps it back.        *)
(***************************************************************************)
RemappedFields == {"Drive.speed", "Turn.angle", "Turn.speed"}

\* The remap from_bytes applies to the byte of the field.
RestoredField(f, x) ==
    CASE f = "Drive.speed" -> DriveDecodedSpeed(x)
      [] f = "Turn.angle"  -> TurnDecodedAngle(x)
      [] f = "Turn.speed"  -> TurnDecodedSpeed(x)

\* The remap __init__ applies to the field.
AdjustedField(f, x) ==
    CASE f = "Drive.speed" -> DriveAdjustedSpeed(x)
      [] f = "Turn.angle"  -> TurnAdjustedAngle(x)
      [] f = "Turn.speed"  -> TurnAdjustedSpeed(x)

InitFieldRemap ==
    /\ LimitIdle
    /\ PacketIdle
    /\ CommIdle
    /\ MoveIdle
    /\ PctIdle
    /\ rmIn = NoRemap
    /\ rmOut = <<>>
    /\ \E f \in RemappedFields, b \in Byte :
          trip = [field |-> f, orig |-> b, adjusted |-> NotCalled, restored |-> NotCalled]

RestoreField ==
    /\ trip.restored.kind = "not called"
    /\ trip' = [trip EXCEPT !.restored = RestoredField(trip.field, I(trip.orig))]
    /\ UNCHANGED <<rmIn, rmOut>>
    /\ UNCHANGED limitVars
    /\ UNCHANGED moveVars
    /\ UNCHANGED pctVars
    /\ UNCHANGED packetVars
    /\ UNCHANGED commVars

AdjustField ==
    /\ trip.restored.kind = "return"
    /\ trip.adjusted.kind = "not called"
    /\ trip' = [trip EXCEPT !.adjusted = AdjustedField(trip.field, trip.restored.val)]
    /\ UNCHANGED <<rmIn, rmOut>>
    /\ UNCHANGED limitVars
    /\ UNCHANGED moveVars
    /\ UNCHANGED pctVars
    /\ UNCHANGED packetVars
    /\ UNCHANGED commVars

NextFieldRemap ==
    \/ RestoreField
    \/ AdjustField

SpecFieldRemap == InitFieldRemap /\ [][NextFieldRemap]_vars


(***************************************************************************)
(* Serial/Serial.py: SerialCommunicator over a pyserial port.              *)
(*                                                                         *)
(* comm is "absent" before the constructor runs, "alive" once it returned, *)
(* "failed" when it raised.  port is "unset" until self._serial_port is    *)
(* assigned, then "open", then "closed".                                   *)
(***************************************************************************)
PACKET_TERMINATOR == <<10>>

\* Arguments tried for the constructor: serial_device (None, or a string as
\* the sequence of its characters) and baud_rate.
DeviceNames == << <<>>, <<"t", "t", "y">> >>
BaudRates   == {-1, 0, 9600}

\* Frames the device may put on the line (without the terminator).
DeviceFrames ==
    << <<>>, <<255>>, <<255, 0, 0>>, <<254, 1, 0>>, <<2, 1, 5>>, <<7, 1, 1>>,
       <<1, 9, 0>>, <<1, 1, 5>>, <<0, 1, 1, 44>>, <<1, 1, 5, 95>> >>

\* Arguments of the MotorSpeed packets the caller builds and sends.
SendMotorIds == {5}
SendSpeeds   == {-50, 10, 95, 100}

Called(op, kind, pkt, arg, line) ==
    [kind |-> kind, pkt |-> pkt, arg |-> arg, line |-> line, op |-> op,
     portWas |-> port, seq |-> last.seq + 1]

Count(c) == [ioCalls EXCEPT ![c] = @ + 1]

Init ==
    /\ LimitIdle
    /\ PacketIdle
    /\ CommIdle
    /\ MoveIdle
    /\ PctIdle
    /\ RemapIdle

\* The arguments of a constructor call as kept in `last`: whether
\* serial_device is given (not None), its length, and baud_rate.
InitArgs(hasDevice, device, baud_rate) ==
    <<IF hasDevice THEN 1 ELSE 0, Len(device), baud_rate>>

\* __init__ without the baud_rate check.
NewCommunicator_NoBaudCheck(hasDevice, device, baud_rate, acquired) ==
    /\ comm = "absent"
    /\ IF ~hasDevice \/ Len(device) = 0
       THEN /\ comm' = "failed"
            /\ last' = Called("init", "ValueError", NoPacket,
                              InitArgs(hasDevice, device, baud_rate), <<>>)
            /\ UNCHANGED <<port, ioCalls>>
       ELSE IF acquired
       THEN /\ comm' = "alive"
            /\ port' = "open"
            /\ ioCalls' = Count("open")
            /\ last' = Called("init", "return", NoPacket,
                              InitArgs(hasDevice, device, baud_rate), <<>>)
       ELSE /\ comm' = "failed"
            /\ ioCalls' = Count("open")
            /\ last' = Called("init", "AppExceptions.SerialException", NoPacket,
                              InitArgs(hasDevice, device, baud_rate), <<>>)
            /\ UNCHANGED port
    /\ UNCHANGED <<inbound, written>>
    /\ UNCHANGED limitVars
    /\ UNCHANGED moveVars
    /\ UNCHANGED pctVars
    /\ UNCHANGED remapVars
    /\ UNCHANGED packetVars

\* SerialCommunicator.__init__(serial_device, baud_rate); acquired tells
\* whether serial.Serial(...) opens the port or raises SerialException.
NewCommunicator(hasDevice, device, baud_rate, acquired) ==
    /\ comm = "absent"
    /\ IF baud_rate <= 0 \/ ~hasDevice \/ Len(device) = 0
       THEN /\ comm' = "failed"
            /\ last' = Called("init", "ValueError", NoPacket,
                              InitArgs(hasDevice, device, baud_rate), <<>>)
            /\ UNCHANGED <<port, ioCalls>>
       ELSE IF acquired
       THEN /\ comm' = "alive"
            /\ port' = "open"
            /\ ioCalls' = Count("open")
            /\ last' = Called("init", "return", NoPacket,
                              InitArgs(hasDevice, device, baud_rate), <<>>)
       ELSE /\ comm' = "failed"
            /\ ioCalls' = Count("open")
            /\ last' = Called("init", "AppExceptions.SerialException", NoPacket,
                              InitArgs(hasDevice, device, baud_rate), <<>>)
            /\ UNCHANGED port
    /\ UNCHANGED <<inbound, written>>
    /\ UNCHANGED limitVars
    /\ UNCHANGED moveVars
    /\ UNCHANGED pctVars
    /\ UNCHANGED remapVars
    /\ UNCHANGED packetVars

\* SerialCommunicator.__del__()
Del ==
    /\ comm \in {"alive", "failed"}
    /\ ioCalls.ops < MaxOps
    /\ IF port = "unset"
       THEN /\ last' = Called("del", "AttributeError", NoPacket, <<>>, <<>>)
            /\ ioCalls' = Count("ops")
            /\ UNCHANGED port
       ELSE /\ port' = "closed"
            /\ ioCalls' = [ioCalls EXCEPT !.ops = @ + 1, !.close = @ + 1]
            /\ last' = Called("del", "return", NoPacket, <<>>, <<>>)
    /\ UNCHANGED <<comm, inbound, written>>
    /\ UNCHANGED limitVars
    /\ UNCHANGED moveVars
    /\ UNCHANGED pctVars
    /\ UNCHANGED remapVars
    /\ UNCHANGED packetVars

\* The argument of write(): packet.bytes + self.PACKET_TERMINATOR.
Frame_NoTerminator(b) == b

Frame(b) == b \o PACKET_TERMINATOR

\* send without the is_open check.
Send_NoCheck(p, writeOk) ==
    /\ comm = "alive"
    /\ ioCalls.ops < MaxOps
    /\ written' = Append(written, [data |-> Frame(p.bytes), ok |-> writeOk])
    /\ ioCalls' = [ioCalls EXCEPT !.ops = @ + 1, !.write = @ + 1]
    /\ last' = Called("send", IF writeOk THEN "return" ELSE "AppExceptions.SerialException",
                      NoPacket, p.bytes, <<>>)
    /\ UNCHANGED <<comm, port, inbound>>
    /\ UNCHANGED limitVars
    /\ UNCHANGED moveVars
    /\ UNCHANGED pctVars
    /\ UNCHANGED remapVars
    /\ UNCHANGED packetVars

\* SerialCommunicator.send(packet); writeOk tells whether write() returns or
\* raises serial.SerialException.
Send(p, writeOk) ==
    /\ comm = "alive"
    /\ ioCalls.ops < MaxOps
    /\ IF port # "open"
       THEN /\ last' = Called("send", "AppExceptions.SerialException", NoPacket, p.bytes, <<>>)
            /\ ioCalls' = Count("ops")
            /\ UNCHANGED written
       ELSE /\ written' = Append(written, [data |-> Frame(p.bytes), ok |-> writeOk])
            /\ ioCalls' = [ioCalls EXCEPT !.ops = @ + 1, !.write = @ + 1]
            /\ last' = Called("send",
                              IF writeOk THEN "return" ELSE "AppExceptions.SerialException",
                              NoPacket, p.bytes, <<>>)
    /\ UNCHANGED <<comm, port, inbound>>
    /\ UNCHANGED limitVars
    /\ UNCHANGED moveVars
    /\ UNCHANGED pctVars
    /\ UNCHANGED remapVars
    /\ UNCHANGED packetVars

\* The caller builds a MotorSpeed packet and sends it.
SendMotorSpeed ==
    \E m \in SendMotorIds, s \in SendSpeeds, writeOk \in BOOLEAN :
        LET o == MotorSpeedInit(I(m), I(s)) IN
        /\ o.kind = "return"
        /\ Send(o.pkt, writeOk)

\* readline(): the bytes up to and including the first terminator; when the
\* timeout passes without one, whatever has arrived.
HasLine(buf) == \E i \in 1..Len(buf) : buf[i] = PACKET_TERMINATOR[1]
LineEnd(buf) ==
    IF HasLine(buf)
    THEN CHOOSE i \in 1..Len(buf) :
            /\ buf[i] = PACKET_TERMINATOR[1]
            /\ \A j \in 1..(i - 1) : buf[j] # PACKET_TERMINATOR[1]
    ELSE Len(buf)
ReadLine(buf) == SubSeq(buf, 1, LineEnd(buf))
AfterLine(buf) == SubSeq(buf, LineEnd(buf) + 1, Len(buf))

\* bytes.rstrip(chars): drops every trailing byte that is in chars.
RECURSIVE RStrip(_, _)
RStrip(b, chars) ==
    IF Len(b) > 0 /\ b[Len(b)] \in {chars[i] : i \in 1..Len(chars)}
    THEN RStrip(SubSeq(b, 1, Len(b) - 1), chars)
    ELSE b

\* packet_class(packet_data) in receive: the class is called with the single
\* bytes argument.  CoreSleepSerialPacket compares it with the bound of
\* POSITIVE_INT, the other constructors lack positional arguments; each
\* raises TypeError.
ClassCall(variant, packet_data) ==
    CASE variant = "CoreSleep"  -> Failed("TypeError")
      [] variant = "MotorSpeed" -> Failed("TypeError")
      [] variant = "Drive"      -> Failed("TypeError")
      [] variant = "Turn"       -> Failed("TypeError")

\* receive() from the stripped line on: unpack, check the type, look the
\* class up and call it.
ParsePacket(raw_data) ==
    LET u == Unpack("BBs", raw_data) IN
    IF u.kind # "return" THEN Failed(u.kind)
    ELSE IF u.vals[1] \notin SerialPacketType THEN Failed("AppExceptions.SerialException")
    ELSE IF <<u.vals[1], u.vals[2]>> \notin DOMAIN PACKET_MAPPING THEN Failed("KeyError")
    ELSE ClassCall(PACKET_MAPPING[<<u.vals[1], u.vals[2]>>], <<u.vals[3]>>)

\* SerialCommunicator.receive(); readOk tells whether readline() returns or
\* raises serial.SerialException.
Receive(readOk) ==
    /\ comm = "alive"
    /\ ioCalls.ops < MaxOps
    /\ IF port # "open"
       THEN /\ last' = Called("receive", "AppExceptions.SerialException", NoPacket, <<>>, <<>>)
            /\ ioCalls' = Count("ops")
            /\ UNCHANGED inbound
       ELSE /\ ioCalls' = [ioCalls EXCEPT !.ops = @ + 1, !.readline = @ + 1]
            /\ IF readOk
               THEN LET line == ReadLine(inbound)
                        o == ParsePacket(RStrip(line, PACKET_TERMINATOR))
                    IN  /\ inbound' = AfterLine(inbound)
                        /\ last' = Called("receive", o.kind, o.pkt, <<>>, line)
               ELSE /\ last' = Called("receive", "serial.SerialException", NoPacket, <<>>, <<>>)
                    /\ UNCHANGED inbound
    /\ UNCHANGED <<comm, port, written>>
    /\ UNCHANGED limitVars
    /\ UNCHANGED moveVars
    /\ UNCHANGED pctVars
    /\ UNCHANGED remapVars
    /\ UNCHANGED packetVars

\* The device at the other end of the line sends a frame and its terminator.
Arrive ==
    \E i \in 1..Len(DeviceFrames) :
        /\ ioCalls.arrived < MaxInbound
        /\ inbound' = inbound \o DeviceFrames[i] \o PACKET_TERMINATOR
        /\ ioCalls' = Count("arrived")
        /\ UNCHANGED <<comm, port, written, last>>
        /\ UNCHANGED limitVars
        /\ UNCHANGED moveVars
        /\ UNCHANGED pctVars
        /\ UNCHANGED remapVars
        /\ UNCHANGED packetVars

Next ==
    \/ \E hasDevice \in BOOLEAN, d \in 1..Len(DeviceNames), b \in BaudRates, acquired \in BOOLEAN :
          NewCommunicator(hasDevice, DeviceNames[d], b, acquired)
    \/ Del
    \/ SendMotorSpeed
    \/ \E readOk \in BOOLEAN : Receive(readOk)
    \/ Arrive

Spec == Init /\ [][Next]_vars

(***************************************************************************)
(* Properties of NumericLimit and of the packet classes.                   *)
(***************************************************************************)
\* v lies in the inclusive range of limit l; an absent bound does not
\* constrain.
Within(l, v) == (l.hasMin => l.min <= v) /\ (l.hasMax => v <= l.max)

\* The constructor arguments of `built` lie within the limits the packet
\* table gives for the variant.
ArgsWithinLimits ==
    CASE built.cls = "CoreSleep"  -> Within(POSITIVE_INT, built.args[1])
      [] built.cls = "MotorSpeed" -> Within(SIGNED_PERCENTAGE, built.args[2])
      [] built.cls = "Drive"      -> /\ Within(TWO_BYTE_UNSIGNED_INT, built.args[2])
                                     /\ Within(SIGNED_PERCENTAGE, built.args[3])
      [] built.cls = "Turn"       -> /\ Within(TURN_ANGLE, built.args[1])
                                     /\ Within(UNSIGNED_PERCENTAGE, built.args[2])
      [] OTHER -> FALSE

\* C1: for every variant and all field values within the variant's limits,
\* from_bytes applied to the payload of the encoded packet succeeds and
\* yields a packet of the same variant with the same fields.
C1_RoundTrip ==
    (decoded.out.kind # "not called" /\ ArgsWithinLimits) =>
        /\ decoded.out.kind = "return"
        /\ decoded.out.pkt.cls = built.cls
        /\ decoded.out.pkt.fields = built.out.pkt.fields

\* A signed percentage as one raw byte (two's complement below zero).
RawByte(n) == IF n < 0 THEN n + 256 ELSE n

\* C2: for every motor id that fits a byte and every speed within
\* SIGNED_PERCENTAGE, MotorSpeed(m, s).bytes is [MOTORS, SPEED, m, s].
C2_MotorSpeedBytes ==
    (/\ built.cls = "MotorSpeed"
     /\ built.args[1] \in Byte
     /\ Within(SIGNED_PERCENTAGE, built.args[2])) =>
        /\ built.out.kind = "return"
        /\ built.out.pkt.bytes =
              <<MOTORS, SPEED, built.args[1], RawByte(built.args[2])>>

\* C3: for every sleep period t within POSITIVE_INT that fits two bytes,
\* CoreSleep(t).bytes is [CORE, SLEEP, high byte of t, low byte of t].
\* (t = 0 is left out: the docstring of POSITIVE_INT speaks of integers
\* greater than 0.)
C3_CoreSleepBytes ==
    (/\ built.cls = "CoreSleep"
     /\ Within(POSITIVE_INT, built.args[1])
     /\ built.args[1] \in 1..65535) =>
        /\ built.out.kind = "return"
        /\ built.out.pkt.bytes =
              <<CORE, SLEEP, built.args[1] \div 256, built.args[1] % 256>>

\* C4: with both bounds present, assert_value in non-silent mode raises
\* AssertionError for every value below min or above max.
C4_OutOfRangeRaises ==
    (/\ result.kind # "not called"
     /\ lim.hasMin /\ lim.hasMax
     /\ ~silent
     /\ (value < lim.min \/ value > lim.max)) =>
        result.kind = "AssertionError"

C4_Witness ==
    /\ result.kind = "AssertionError"
    /\ lim.hasMin /\ lim.hasMax
    /\ ~silent
    /\ value > lim.max

\* v clamped into [min, max].
Clamp(l, v) == IF v < l.min THEN l.min ELSE IF v > l.max THEN l.max ELSE v

\* The value a silent assert_value call stands for: the docstring of
\* assert_value lets a valid value be answered by None, read here as the
\* value itself.
Effective(r, v) == IF r.none THEN v ELSE r.val.num

\* C5: with both bounds present, assert_value in silent mode never fails and
\* yields the value clamped into [min, max].
C5_SilentClamps ==
    (/\ result.kind # "not called"
     /\ lim.hasMin /\ lim.hasMax
     /\ silent) =>
        /\ result.kind = "return"
        /\ Effective(result, value) = Clamp(lim, value)

\* C6: with both bounds present, a value equal to min or to max passes
\* assert_value in non-silent mode.
C6_BoundsAreValid ==
    (/\ result.kind # "not called"
     /\ lim.hasMin /\ lim.hasMax
     /\ ~silent
     /\ (value = lim.min \/ value = lim.max)) =>
        result.kind = "return"

\* C11: for every variant a constructor call with a field outside its limit
\* raises AssertionError (the range error) and yields no packet, and every
\* packet that is constructed has all its fields within their limits.
C11_RangeErrorOnEncode ==
    /\ (built.cls # "none" /\ ~ArgsWithinLimits) =>
          /\ built.out.kind = "AssertionError"
          /\ built.out.pkt = NoPacket
    /\ built.out.kind = "return" => ArgsWithinLimits

\* The error from_bytes raises for a byte string it cannot unpack.
DecodeError == "struct.error"

\* The number of bytes of the variant's fixed layout.
LayoutLength(cls) ==
    CASE cls = "CoreSleep"  -> StructSize(">H")
      [] cls = "MotorSpeed" -> StructSize(">BB")
      [] cls = "Drive"      -> StructSize(">BHB")
      [] cls = "Turn"       -> StructSize(">BB")

\* The fields laid out in byte string b of the variant's length lie within
\* the limits of the variant (every speed or angle byte maps into its limit).
PayloadWithinLimits(cls, b) ==
    CASE cls = "CoreSleep"  -> Within(POSITIVE_INT, b[1] * 256 + b[2])
      [] cls = "MotorSpeed" -> Within(SIGNED_PERCENTAGE, b[2])
      [] cls = "Drive"      -> /\ b[1] \in MovementDirection
                               /\ Within(TWO_BYTE_UNSIGNED_INT, b[2] * 256 + b[3])
      [] cls = "Turn"       -> TRUE

\* C12: from_bytes on a byte string of another length than the variant's
\* layout raises the decode error, and from_bytes on a byte string of that
\* length with fields within the limits does not fail.
C12_DecodeLength ==
    decoded.out.kind # "not called" =>
        IF Len(decoded.payload) # LayoutLength(decoded.cls)
        THEN decoded.out.kind = DecodeError
        ELSE PayloadWithinLimits(decoded.cls, decoded.payload) =>
                decoded.out.kind = "return"

\* The (packet type, sub-type) pair registered for the variant.
MappingKey(cls) == CHOOSE k \in DOMAIN PACKET_MAPPING : PACKET_MAPPING[k] = cls

\* The frame made of the registered pair of the decoded variant and the
\* decoded byte string is well formed.
DecodedWellFormedFrame ==
    /\ decoded.out.kind # "not called"
    /\ Len(decoded.payload) = LayoutLength(decoded.cls)
    /\ PayloadWithinLimits(decoded.cls, decoded.payload)

\* C13: decoding a well-formed frame yields a packet whose bytes are the
\* bytes of the frame.
C13_DecodeEncode ==
    DecodedWellFormedFrame =>
        /\ decoded.out.kind = "return"
        /\ decoded.out.pkt.bytes =
              <<MappingKey(decoded.cls)[1], MappingKey(decoded.cls)[2]>> \o decoded.payload

\* Number x is within one unit of the integer n.
Near(x, n) == x.num - n * x.den <= x.den /\ n * x.den - x.num <= x.den

\* C14: every Turn with an angle within TURN_ANGLE and a speed within
\* UNSIGNED_PERCENTAGE is built with the angle and the speed as one byte
\* each, and from_bytes on its payload yields a Turn whose angle and speed
\* are within one unit of the original ones.
C14_TurnRoundTrip ==
    (built.cls = "Turn" /\ ArgsWithinLimits) =>
        /\ built.out.kind = "return"
        /\ Len(built.out.pkt.data) = 3
        /\ \A i \in 2..3 : built.out.pkt.data[i] \in Byte
        /\ decoded.out.kind # "not called" =>
              /\ decoded.out.kind = "return"
              /\ decoded.out.pkt.cls = "Turn"
              /\ \A i \in 1..2 : Near(decoded.out.pkt.fields[i], built.args[i])

\* C15: for Drive speed, Turn angle and Turn speed the remap of from_bytes
\* and the remap of __init__ are inverse to each other: a PWM byte restored
\* by from_bytes and adjusted again by __init__ is that byte (up to one unit
\* of rounding).
C15_DecodeInvertsEncode ==
    trip.adjusted.kind # "not called" =>
        /\ trip.adjusted.kind = "return"
        /\ Near(trip.adjusted.val, trip.orig)

\* C19: a limit with exactly one bound does not constrain the absent side:
\* assert_value passes, without error, every value at or above the only
\* min and every value at or below the only max; a limit with no bound
\* cannot be constructed.
C19_AbsentBoundUnconstrained ==
    /\ ~NumericLimitConstructible(FALSE, FALSE)
    /\ (/\ result.kind # "not called"
        /\ lim.hasMin # lim.hasMax
        /\ Within(lim, value)) =>
            result.kind = "return"


(***************************************************************************)
(* Properties of MovementController.                                       *)
(***************************************************************************)
\* Element e of a list is a MotorSpeed packet for motor m.
IsMotorSpeed(e, m) ==
    /\ ~e.nested
    /\ e.pkts[1].cls = "MotorSpeed"
    /\ e.pkts[1].fields[1] = I(m)

\* C29: for every angle within TURN_ANGLE and speed within
\* UNSIGNED_PERCENTAGE, turn returns a list of five packets: a MotorSpeed
\* for WHEEL_LEFT, a MotorSpeed for WHEEL_RIGHT with the opposite speed, a
\* CoreSleep, and a MotorSpeed with speed 0 for WHEEL_LEFT and for
\* WHEEL_RIGHT.
C29_TurnPackets ==
    (/\ turnOut.kind # "not called"
     /\ Within(TURN_ANGLE, turnIn[1])
     /\ Within(UNSIGNED_PERCENTAGE, turnIn[3])) =>
        /\ turnOut.kind = "return"
        /\ Len(turnOut.items) = 5
        /\ IsMotorSpeed(turnOut.items[1], WHEEL_LEFT)
        /\ IsMotorSpeed(turnOut.items[2], WHEEL_RIGHT)
        /\ turnOut.items[2].pkts[1].fields[2].num = -turnOut.items[1].pkts[1].fields[2].num
        /\ ~turnOut.items[3].nested /\ turnOut.items[3].pkts[1].cls = "CoreSleep"
        /\ IsMotorSpeed(turnOut.items[4], WHEEL_LEFT)
        /\ IsMotorSpeed(turnOut.items[5], WHEEL_RIGHT)
        /\ turnOut.items[4].pkts[1].fields[2] = I(0)
        /\ turnOut.items[5].pkts[1].fields[2] = I(0)


(***************************************************************************)
(* Properties of LimitedSignedPercentage.                                  *)
(***************************************************************************)
PctWithin(v) == MIN_VALUE <= v /\ v <= MAX_VALUE

\* C30: after construction and after any sequence of +, +=, -, -= and *
\* with int or LimitedSignedPercentage operands, the value of the object and
\* of every LimitedSignedPercentage returned by an operator is within
\* [MIN_VALUE, MAX_VALUE].
C30_WithinThresholds ==
    /\ pctLive => PctWithin(pctValue)
    /\ pctOut.what \in {"object", "self"} => PctWithin(pctOut.val)

(***************************************************************************)
\* Numbers a and b are equal.
Eq(a, b) == a.num * b.den = b.num * a.den

\* C16: for a source range with min_input < max_input, remap does not fail;
\* a value at or below min_input yields min_output, a value at or above
\* max_input yields max_output, and every result lies between min_output and
\* max_output.
C16_RemapClamps ==
    (Len(rmOut) >= 1 /\ rmIn.min_input < rmIn.max_input) =>
        LET out == rmOut[1]
            lo  == IF rmIn.min_output <= rmIn.max_output
                   THEN rmIn.min_output ELSE rmIn.max_output
            hi  == IF rmIn.min_output <= rmIn.max_output
                   THEN rmIn.max_output ELSE rmIn.min_output
        IN  /\ out.kind = "return"
            /\ rmIn.first <= rmIn.min_input => Eq(out.val, I(rmIn.min_output))
            /\ rmIn.first >= rmIn.max_input => Eq(out.val, I(rmIn.max_output))
            /\ Le(I(lo), out.val) /\ Le(out.val, I(hi))

C16_Witness ==
    /\ Len(rmOut) >= 1
    /\ rmIn.min_input = -1 /\ rmIn.max_input = 2
    /\ rmIn.min_output = -2 /\ rmIn.max_output = 1
    /\ rmIn.first = 3
    /\ rmOut[1].kind = "return"
    /\ Eq(rmOut[1].val, I(1))

\* C17: for min_input <= a <= b <= max_input, a source range that is not
\* degenerate and min_output < max_output, remap(a) <= remap(b).
C17_RemapMonotonic ==
    (/\ Len(rmOut) = 2
     /\ rmIn.min_input < rmIn.max_input
     /\ rmIn.min_output < rmIn.max_output
     /\ rmIn.min_input <= rmIn.first
     /\ rmIn.first <= rmIn.second
     /\ rmIn.second <= rmIn.max_input) =>
        /\ rmOut[1].kind = "return"
        /\ rmOut[2].kind = "return"
        /\ Le(rmOut[1].val, rmOut[2].val)

C17_Witness ==
    /\ Len(rmOut) = 2
    /\ rmIn.min_input = -2 /\ rmIn.max_input = 2
    /\ rmIn.min_output = 0 /\ rmIn.max_output = 1
    /\ rmIn.first = -1 /\ rmIn.second = 1
    /\ Eq(rmOut[1].val, F(1, 4))
    /\ Eq(rmOut[2].val, F(3, 4))

\* C18: when min_input = max_input, remap does not fail and returns
\* min_output for every value.
C18_RemapDegenerate ==
    (Len(rmOut) >= 1 /\ rmIn.min_input = rmIn.max_input) =>
        /\ rmOut[1].kind = "return"
        /\ Eq(rmOut[1].val, I(rmIn.min_output))


(***************************************************************************)
(* Properties of the SerialCommunicator.                                   *)
(***************************************************************************)
\* The step is a call of send or receive.
IsCall(op) == last'.seq # last.seq /\ last'.op = op

\* C7: while the port is closed, send and receive fail with the
\* communicator's SerialException and neither write to nor read from the
\* transport; write() and readline() are called only while it is open.
C7_ClosedFails ==
    [][/\ ((IsCall("send") \/ IsCall("receive")) /\ port = "closed") =>
            /\ last'.kind = "AppExceptions.SerialException"
            /\ written' = written
            /\ inbound' = inbound
            /\ ioCalls'.write = ioCalls.write
            /\ ioCalls'.readline = ioCalls.readline
       /\ (ioCalls'.write # ioCalls.write \/ ioCalls'.readline # ioCalls.readline) =>
            port = "open"]_vars

C7_Witness ==
    /\ last.op = "send"
    /\ last.portWas = "closed"
    /\ last.kind = "AppExceptions.SerialException"
    /\ written = <<>>

\* The line just read is a frame that send wrote earlier.
ReadBackOwnFrame ==
    /\ last.op = "receive"
    /\ last.portWas = "open"
    /\ \E i \in 1..Len(written) : written[i].ok /\ written[i].data = last.line

\* C8: when the frame written by send(p) is the next frame on the inbound
\* stream, receive() returns a packet of the variant of p decoded from the
\* payload after the type and sub-type bytes.
C8_SendThenReceive ==
    ReadBackOwnFrame =>
        /\ last.kind = "return"
        /\ last.pkt.cls = PACKET_MAPPING[<<last.line[1], last.line[2]>>]
        /\ last.pkt.bytes = RStrip(last.line, PACKET_TERMINATOR)

\* The typed error receive() raises for a packet it does not recognise.
UnknownPacketError == "AppExceptions.SerialException"

\* The line just read is a terminated frame with a (type, sub-type) pair
\* that PACKET_MAPPING does not hold.
ReadUnregisteredFrame ==
    /\ last.op = "receive"
    /\ last.portWas = "open"
    /\ Len(last.line) >= 3
    /\ last.line[Len(last.line)] = PACKET_TERMINATOR[1]
    /\ <<last.line[1], last.line[2]>> \notin DOMAIN PACKET_MAPPING

\* C9: receive() on a frame whose (type, sub-type) pair is not registered
\* fails with the typed unknown-packet error and no other failure.
C9_UnknownPacket ==
    ReadUnregisteredFrame => last.kind = UnknownPacketError

\* The typed error receive() raises for a frame it cannot take apart.
MalformedFrameError == "AppExceptions.SerialException"

\* The line just read is a terminated frame too short to hold a type and a
\* sub-type byte (the terminator alone included).
ReadShortFrame ==
    /\ last.op = "receive"
    /\ last.portWas = "open"
    /\ Len(last.line) >= 1
    /\ last.line[Len(last.line)] = PACKET_TERMINATOR[1]
    /\ Len(RStrip(last.line, PACKET_TERMINATOR)) < 2

\* C20: receive() on a frame too short to hold a type and a sub-type byte
\* fails with the typed malformed-frame error and no other error.
C20_ShortFrame ==
    ReadShortFrame => last.kind = MalformedFrameError

\* The last receive() read from an open port on which no terminator arrived
\* within the read timeout: readline() returned without a line.
ReadTimedOut ==
    /\ last.op = "receive"
    /\ last.portWas = "open"
    /\ last.line = <<>>
    /\ last.kind # "serial.SerialException"

\* C21: when no terminator arrives within the read timeout, receive() fails
\* with an error other than the one it reports for a malformed (empty)
\* frame, and the port stays open.
C21_Timeout ==
    ReadTimedOut =>
        /\ last.kind # "return"
        /\ last.kind # ParsePacket(<<>>).kind
        /\ port = "open"

\* Line is a terminated well-formed frame: a registered (type, sub-type) pair
\* and a payload of the variant's length with fields within its limits.
WellFormedLine(line) ==
    /\ Len(line) >= 3
    /\ line[Len(line)] = PACKET_TERMINATOR[1]
    /\ <<line[1], line[2]>> \in DOMAIN PACKET_MAPPING
    /\ LET variant == PACKET_MAPPING[<<line[1], line[2]>>]
           payload == SubSeq(line, 3, Len(line) - 1)
       IN  /\ Len(payload) = LayoutLength(variant)
           /\ PayloadWithinLimits(variant, payload)

\* The last call was a receive() that read a frame and failed on it.
FailedOnFrame ==
    /\ last.op = "receive"
    /\ Len(last.line) > 0
    /\ last.kind # "return"

\* C22: a receive() that fails on the frame it read consumes exactly that
\* frame and leaves the port open, and the receive() after it returns the
\* next frame on the stream when that frame is well formed.
C22_FailureConsumesOneFrame ==
    [][(/\ IsCall("receive")
        /\ port = "open"
        /\ HasLine(inbound)
        /\ last'.kind # "serial.SerialException") =>
          /\ last'.kind # "return" =>
                /\ inbound' = AfterLine(inbound)
                /\ port' = "open"
          /\ (FailedOnFrame /\ WellFormedLine(ReadLine(inbound))) =>
                last'.kind = "return"]_vars

\* C23: over the life of a communicator the port is released at most once
\* and only after it was acquired, tearing down an open communicator
\* releases the port, and tearing down a closed one, or one whose
\* construction failed, changes nothing and raises no error.
C23_ReleaseOnce ==
    [][/\ port' # port =>
            \/ port = "unset" /\ port' = "open" /\ ioCalls'.open = 1
            \/ port = "open" /\ port' = "closed"
       /\ IsCall("del") =>
            /\ last'.kind = "return"
            /\ port = "open" => port' = "closed"
            /\ port # "open" => port' = port]_vars

\* The error __init__ raises for an invalid configuration.
ConfigError == "ValueError"

\* C24: a constructor call with a missing or empty device name, or with a
\* baud rate <= 0, raises the configuration error without any attempt to
\* open the port, and leaves no open port.
C24_InvalidConfig ==
    [][(/\ IsCall("init")
        /\ (last'.arg[1] = 0 \/ last'.arg[2] = 0 \/ last'.arg[3] <= 0)) =>
          /\ last'.kind = ConfigError
          /\ ioCalls'.open = ioCalls.open
          /\ port' = "unset"]_vars

C24_Witness ==
    /\ last.op = "init"
    /\ last.arg = <<1, 3, 0>>
    /\ last.kind = ConfigError
    /\ ioCalls.open = 0
    /\ port = "unset"

\* C25: the bytes of every packet built from fields within the limits hold
\* no terminator byte, so the line readline() takes from the frame send
\* writes is the whole frame, and stripping it leaves the packet's bytes.
C25_NoTerminatorInBytes ==
    (built.out.kind = "return" /\ ArgsWithinLimits) =>
        LET b == built.out.pkt.bytes IN
        /\ \A i \in 1..Len(b) : b[i] # PACKET_TERMINATOR[1]
        /\ ReadLine(Frame(b)) = Frame(b)
        /\ RStrip(ReadLine(Frame(b)), PACKET_TERMINATOR) = b

\* C26: for every direction of MovementDirection, distance within
\* TWO_BYTE_UNSIGNED_INT and speed within SIGNED_PERCENTAGE, the bytes of
\* Drive(direction, distance, speed) are MOTORS, DRIVE, the direction, the
\* high and the low byte of the distance and one byte for the speed.
C26_DriveBytes ==
    (/\ built.cls = "Drive"
     /\ built.args[1] \in MovementDirection
     /\ Within(TWO_BYTE_UNSIGNED_INT, built.args[2])
     /\ Within(SIGNED_PERCENTAGE, built.args[3])) =>
        /\ built.out.kind = "return"
        /\ Len(built.out.pkt.bytes) = 6
        /\ SubSeq(built.out.pkt.bytes, 1, 5) =
              <<MOTORS, DRIVE, built.args[1],
                built.args[2] \div 256, built.args[2] % 256>>
        /\ built.out.pkt.bytes[6] \in Byte

\* C27: PACKET_MAPPING holds exactly one key for every variant and none
\* with the type CONT or LAST, and the first two bytes of every packet a
\* variant builds are the key of that variant.
C27_RegistryAgrees ==
    /\ \A v \in Variants :
          Cardinality({k \in DOMAIN PACKET_MAPPING : PACKET_MAPPING[k] = v}) = 1
    /\ \A k \in DOMAIN PACKET_MAPPING : k[1] \notin {CONT, LAST}
    /\ built.out.kind = "return" =>
          LET k == <<built.out.pkt.bytes[1], built.out.pkt.bytes[2]>> IN
          /\ k \in DOMAIN PACKET_MAPPING
          /\ PACKET_MAPPING[k] = built.cls

C27_Witness ==
    /\ built.cls = "MotorSpeed"
    /\ built.out.kind = "return"
    /\ built.out.pkt.bytes = <<MOTORS, SPEED, 5, 95>>

\* C28: after the constructor and after every set(data) call, the bytes of
\* a packet are its packet-type byte followed by its current data; set with
\* data that is not a bytes object raises TypeError and changes nothing.
C28_BytesFollowData ==
    [][/\ built'.out.kind = "return" =>
            built'.out.pkt.bytes = <<built'.out.pkt.ptype>> \o built'.out.pkt.data
       /\ (setCall'.count # setCall.count /\ ~setCall'.isBytes) =>
            /\ setCall'.kind = "TypeError"
            /\ built' = built]_vars

\* C10: while the port is open, send(p) makes exactly one write() call, with
\* the bytes of p followed by the single byte 0x0A; a failure of that write
\* is raised to the caller as SerialException, with no further write.
C10_SendWritesFrame ==
    [][(IsCall("send") /\ port = "open") =>
          /\ Len(written') = Len(written) + 1
          /\ SubSeq(written', 1, Len(written)) = written
          /\ written'[Len(written')].data = last'.arg \o <<10>>
          /\ ioCalls'.write = ioCalls.write + 1
          /\ last'.kind = IF written'[Len(written')].ok
                          THEN "return" ELSE "AppExceptions.SerialException"]_vars

C10_Witness ==
    /\ last.op = "send"
    /\ last.portWas = "open"
    /\ last.kind = "AppExceptions.SerialException"
    /\ Len(written) = 2
    /\ written[1] = [data |-> <<MOTORS, SPEED, 5, 95, 10>>, ok |-> TRUE]
    /\ written[2] = [data |-> <<MOTORS, SPEED, 5, 95, 10>>, ok |-> FALSE]

=============================================================================
